---- MODULE Spec2Model ----
(***************************************************************************)
(* A model of MulensModel: Model (source/MulensModel/model.py), the        *)
(* caustics of a point lens with external shear                            *)
(* (source/MulensModel/causticspoint.py) and Lens                          *)
(* (source/MulensModel/lens.py).                                           *)
(*                                                                         *)
(* Python values.  An optional value is a sequence of length 0 (None) or   *)
(* of length 1 (the value): None == <<>>, Some(v) == <<v>>.  Floats are    *)
(* small integers.  Exceptions are the strings naming them.                *)
(***************************************************************************)
EXTENDS Integers, Sequences, FiniteSets, TLC

\* ------------------------------------------------------------------ bounds
\* Values of a model parameter are 1..MaxVal.
MaxVal == 2
\* Largest n_points of the dense range 0..MaxNPoints handed to _calculate.
MaxNPoints == 41
\* Time samples and schedule breakpoints are 0..MaxTime.
MaxTime == 2
\* Longest time array and longest satellite position array.
MaxLen == 2
\* Cap of the counters of caustics computations (history only).
MaxCount == 2
\* Largest total mass of a Lens.
MaxMass == 12
\* Separations u = n / d of source and lens have n and d in 1..MaxU.
MaxU == 4
\* n_epochs of set_times is its default or one of 1..MaxEpochs.
MaxEpochs == 3

\* ---------------------------------------------------------------- constants
\* The default n_epochs of Model.set_times.
DefaultEpochs == 1000

\* ------------------------------------------------------------------ values
None == <<>>
Some(v) == <<v>>
IsNone(o) == o = <<>>
Val(o) == o[1]
Vals == 1..MaxVal
OptVals == {None} \cup {Some(v) : v \in Vals}

\* What a constructor or call may be handed as q: nothing, a scalar, or a
\* list / array of scalars (possibly empty).
QArgs ==
    {[kind |-> "none", v |-> <<>>]}
    \cup {[kind |-> "scalar", v |-> <<x>>] : x \in Vals}
    \cup {[kind |-> "list", v |-> <<>>]}
    \cup {[kind |-> "list", v |-> <<x>>] : x \in Vals}
    \cup {[kind |-> "list", v |-> <<x, y>>] : x \in Vals, y \in Vals}

VARIABLES
    exists,             \* a Model object came out of the last constructor call
    parameters,         \* Model._parameters: the ModelParameters object
    t_0_par,            \* Model._t_0_par
    coords,             \* Model._coords
    ephemerides_file,   \* Model.ephemerides_file
    parallax,           \* Model._parallax
    default_method,     \* Model._default_magnification_method
    methods,            \* Model._methods
    caustics,           \* Model.caustics
    bandpasses,         \* Model._bandpasses
    limb_darkening_coeffs,  \* Model._limb_darkening_coeffs
    result,             \* outcome of the last call: value returned or exception
    computed,           \* history: caustics computations since (q, s) last changed
    cpws,               \* the CausticsPointWithShear object
    lens,               \* the Lens object
    model_2             \* a second Model: whether it holds the ModelParameters
                        \* object of the first, else the fields of its own

modelVars == <<exists, parameters, t_0_par, coords, ephemerides_file, parallax,
               default_method, methods, caustics, bandpasses,
               limb_darkening_coeffs>>
vars == <<exists, parameters, t_0_par, coords, ephemerides_file, parallax,
          default_method, methods, caustics, bandpasses, limb_darkening_coeffs,
          result, computed, cpws, lens, model_2>>

\* ------------------------------------------------------- ModelParameters
\* ModelParameters(): every parameter None.
EmptyParameters ==
    [t_0 |-> None, u_0 |-> None, t_E |-> None, rho |-> None,
     s |-> None, q |-> None, alpha |-> None,
     pi_E_N |-> None, pi_E_E |-> None, pi_E_ref |-> None]

\* The values a parameter does not take: a negative rho, a zero t_E.
InvalidParameter(field, value) ==
    /\ ~IsNone(value)
    /\ \/ field = "rho" /\ Val(value) < 0
       \/ field = "t_E" /\ Val(value) = 0

\* parameters.<field> = value.  The outcome of an assignment or of a call is
\* [exc, p]: the exception raised, "" if none, and the fields of the object
\* after it.
ParametersSet(p, field, value) ==
    IF InvalidParameter(field, value) THEN [exc |-> "InvalidParameter", p |-> p]
    ELSE [exc |-> "", p |-> [p EXCEPT ![field] = value]]

\* ModelParameters(t_0=..., ...): the object with the fields a, or the
\* exception of the first value that is not valid.
ParametersInvalid(a) == \E f \in DOMAIN a : InvalidParameter(f, a[f])

\* ------------------------------------------------- Model: parameter setters
\* Model.t_0 = value, lines 178-180.
Model_t_0(p, value) == ParametersSet(p, "t_0", value)

\* Model.u_0 = value, lines 190-192: the attribute _u_0 of the parameters
\* object is written, not its property.
Model_u_0(p, value) == [exc |-> "", p |-> [p EXCEPT !.u_0 = value]]

\* A t_E setter that writes the attribute as the u_0 setter does.
Model_t_E_Direct(p, value) == [exc |-> "", p |-> [p EXCEPT !.t_E = value]]

\* Model.t_E = value, lines 202-204.
Model_t_E(p, value) == ParametersSet(p, "t_E", value)

\* A rho setter that writes the attribute as the u_0 setter does.
Model_rho_Direct(p, value) == [exc |-> "", p |-> [p EXCEPT !.rho = value]]

\* Model.rho = value, lines 211-213.
Model_rho(p, value) == ParametersSet(p, "rho", value)

\* Model.s = value, lines 266-268.
Model_s(p, value) == ParametersSet(p, "s", value)

\* A statement that runs when its value is given and nothing was raised.
Then(r, Setter(_, _), value) ==
    IF r.exc # "" \/ IsNone(value) THEN r ELSE Setter(r.p, value)

\* ----------------------------------------------------------- Model.__init__
\* The arguments of Model(...).  parameters is nothing, an existing
\* ModelParameters object (its fields) or a value of another type.
NoParameters == [kind |-> "none", v |-> <<>>]
NoArgs ==
    [parameters |-> NoParameters, t_0 |-> None, u_0 |-> None, t_E |-> None,
     rho |-> None, s |-> None, q |-> [kind |-> "none", v |-> <<>>],
     alpha |-> None, pi_E_N |-> None, pi_E_E |-> None, pi_E_ref |-> None,
     t_0_par |-> None, coords |-> None, ra |-> None, dec |-> None,
     ephemerides_file |-> None]

\* The constructor runs as a chain of steps over a record
\* [exc, p, q, coords]: exc is "" or the exception raised (the later steps
\* are then skipped), p the ModelParameters object as mutated so far, q the
\* local variable q, coords the value of self._coords.
\* Lines 69-76: parameters must be a ModelParameters object or None.
Start(a) ==
    [exc |-> IF a.parameters.kind = "other" THEN "TypeError" ELSE "",
     p |-> IF a.parameters.kind = "ModelParameters" THEN a.parameters.v[1]
           ELSE EmptyParameters,
     q |-> None,
     coords |-> None]

\* Lines 79-88: t_0, u_0, t_E, rho, s are assigned through the setters of
\* the Model, in this order, each when given; the first exception ends it.
InitBasic(st, a) ==
    IF st.exc # "" THEN st
    ELSE LET r == Then(Then(Then(Then(Then([exc |-> "", p |-> st.p],
                                           Model_t_0, a.t_0),
                                      Model_u_0, a.u_0),
                                 Model_t_E, a.t_E),
                            Model_rho, a.rho),
                       Model_s, a.s)
         IN  [st EXCEPT !.exc = r.exc, !.p = r.p]

\* InitQ without the length test: q[0] of any non-empty list is taken.
InitQ_AnyLength(st, a) ==
    IF st.exc # "" \/ a.q.kind = "none" THEN st
    ELSE IF a.q.kind = "list" THEN
        IF Len(a.q.v) = 0 THEN [st EXCEPT !.exc = "IndexError"]
        ELSE [st EXCEPT !.q = Some(a.q.v[1]), !.p = [st.p EXCEPT !.q = Some(a.q.v[1])]]
    ELSE [st EXCEPT !.q = a.q.v, !.p = [st.p EXCEPT !.q = a.q.v]]

\* Lines 90-97: q; a list or array longer than 1 raises NotImplementedError
\* before self.q is assigned, otherwise q = q[0] (IndexError on an empty one).
InitQ(st, a) ==
    IF st.exc # "" \/ a.q.kind = "none" THEN st
    ELSE IF a.q.kind = "list" THEN
        IF Len(a.q.v) > 1 THEN [st EXCEPT !.exc = "NotImplementedError"]
        ELSE IF Len(a.q.v) = 0 THEN [st EXCEPT !.exc = "IndexError"]
        ELSE [st EXCEPT !.q = Some(a.q.v[1]), !.p = [st.p EXCEPT !.q = Some(a.q.v[1])]]
    ELSE [st EXCEPT !.q = a.q.v, !.p = [st.p EXCEPT !.q = a.q.v]]

\* Lines 99-100: alpha.
InitAlpha(st, a) ==
    IF st.exc # "" \/ IsNone(a.alpha) THEN st
    ELSE [st EXCEPT !.p = [st.p EXCEPT !.alpha = a.alpha]]

\* InitCheckBinary with the inner test on s and q only.
InitCheckBinary_NoAlpha(st, a) ==
    IF st.exc # "" THEN st
    ELSE IF (~IsNone(a.s) \/ ~IsNone(st.q) \/ ~IsNone(a.alpha))
            /\ (IsNone(a.s) \/ IsNone(st.q))
         THEN [st EXCEPT !.exc = "AttributeError"]
         ELSE st

\* Lines 102-105: one of (s, q, alpha) given means all three given.
InitCheckBinary(st, a) ==
    IF st.exc # "" THEN st
    ELSE IF (~IsNone(a.s) \/ ~IsNone(st.q) \/ ~IsNone(a.alpha))
            /\ (IsNone(a.s) \/ IsNone(st.q) \/ IsNone(a.alpha))
         THEN [st EXCEPT !.exc = "AttributeError"]
         ELSE st

\* InitParallaxVector without the test: each component that is given is set.
InitParallaxVector_Either(st, a) ==
    IF st.exc # "" THEN st
    ELSE [st EXCEPT !.p = [st.p EXCEPT
                             !.pi_E_N = IF IsNone(a.pi_E_N) THEN @ ELSE a.pi_E_N,
                             !.pi_E_E = IF IsNone(a.pi_E_E) THEN @ ELSE a.pi_E_E]]

\* Lines 109-129: pi_E_N and pi_E_E are set when both are given, through
\* their setters, or as a vector in the frame pi_E_ref when that is given;
\* one without the other raises AttributeError.
InitParallaxVector(st, a) ==
    IF st.exc # "" THEN st
    ELSE IF ~IsNone(a.pi_E_N) THEN
        IF ~IsNone(a.pi_E_E) THEN
            [st EXCEPT !.p = [st.p EXCEPT
                                !.pi_E_N = a.pi_E_N,
                                !.pi_E_E = a.pi_E_E,
                                !.pi_E_ref = IF IsNone(a.pi_E_ref) THEN @
                                             ELSE a.pi_E_ref]]
        ELSE [st EXCEPT !.exc = "AttributeError"]
    ELSE IF ~IsNone(a.pi_E_E) THEN [st EXCEPT !.exc = "AttributeError"]
         ELSE st

\* Lines 131-146: coords, or ra and dec.  The else branch of "ra is not None"
\* tests ra again, so it never raises.
InitCoords(st, a) ==
    IF st.exc # "" THEN st
    ELSE LET c1 == IF ~IsNone(a.coords) THEN a.coords ELSE None
         IN  IF ~IsNone(a.ra) THEN
                 IF ~IsNone(a.dec) THEN [st EXCEPT !.coords = Some(<<Val(a.ra), Val(a.dec)>>)]
                 ELSE [st EXCEPT !.exc = "AttributeError", !.coords = c1]
             ELSE IF ~IsNone(a.ra) THEN [st EXCEPT !.exc = "AttributeError", !.coords = c1]
                  ELSE [st EXCEPT !.coords = c1]

Constructor(a) ==
    InitCoords(InitParallaxVector(InitCheckBinary(InitAlpha(InitQ(InitBasic(Start(a), a), a), a), a), a), a)

\* LimbDarkeningCoeffs(): no coefficient is stored for any bandpass.  The
\* object maps a bandpass to the coefficient stored for it.
LimbDarkeningCoeffs == [b \in {} |-> None]

\* Lines 151-154.
DefaultParallax == [earth_orbital |-> TRUE, satellite |-> TRUE, topocentric |-> TRUE]

\* Lines 148-165: the fields of a Model whose constructor returned.
NewModel(st, a) ==
    [parameters |-> st.p, t_0_par |-> a.t_0_par, coords |-> st.coords,
     ephemerides_file |-> a.ephemerides_file, parallax |-> DefaultParallax,
     default_method |-> "point_source", methods |-> None, caustics |-> None,
     bandpasses |-> <<>>, limb_darkening_coeffs |-> LimbDarkeningCoeffs]

\* The fields when the constructor raised: no Model object; the
\* ModelParameters object keeps what was assigned to it before the raise.
NoModel(st) ==
    [parameters |-> st.p, t_0_par |-> None, coords |-> None,
     ephemerides_file |-> None, parallax |-> DefaultParallax,
     default_method |-> "point_source", methods |-> None, caustics |-> None,
     bandpasses |-> <<>>, limb_darkening_coeffs |-> LimbDarkeningCoeffs]

\* ------------------------------------------- CausticsPointWithShear
\* __init__ (lines 21-29): K and G are stored, the point lists are None.
NewCaustics(K, G) ==
    [convergence_K |-> K, shear_G |-> G, x |-> None, y |-> None,
     critical_curve |-> None, n_points |-> None]

\* Line 41: n_angles = int(n_points/4. + .5), for an integer n_points >= 0.
NAngles(n_points) == (n_points + 2) \div 4

\* Lines 51-53: the two roots of the angle with index k, soln and -soln.
Roots(k) == <<[phi |-> k, sign |-> 1, plane |-> "lens"],
              [phi |-> k, sign |-> -1, plane |-> "lens"]>>

\* Lines 63-70: the source plane position of a lens plane point z = sign * soln,
\* (1-K)*z - G*conj(z) - 1/conj(z), held as its three coefficients: of soln,
\* of conj(soln) and of 1/conj(soln), for real K and G.
SolveLensEquation(c, z) ==
    [phi |-> z.phi, plane |-> "source",
     z |-> (1 - c.convergence_K) * z.sign,
     conj |-> -(c.shear_G * z.sign),
     inv |-> -z.sign]

Real(z) == [part |-> "real", of |-> z]
Imag(z) == [part |-> "imag", of |-> z]

\* RootsInOrder with the roots grouped by sign: soln of every angle, then
\* -soln of every angle.
RootsInOrder_BySign(n_angles) ==
    [i \in 1..(2 * n_angles) |->
        IF i <= n_angles THEN Roots(i - 1)[1] ELSE Roots(i - n_angles - 1)[2]]

\* Lines 49-55: the roots in the order the two loops visit them: the angles
\* phi_k = 2 pi k / n_angles, k = 0 .. n_angles - 1, and for each angle
\* soln, then -soln.
RootsInOrder(n_angles) ==
    [i \in 1..(2 * n_angles) |-> Roots((i - 1) \div 2)[((i - 1) % 2) + 1]]

Map(Op(_), seq) == [i \in 1..Len(seq) |-> Op(seq[i])]
SourceReal(c, z) == Real(SolveLensEquation(c, z))
SourceImag(c, z) == Imag(SolveLensEquation(c, z))

\* Lines 55-61: every root is appended to the critical curve and its image
\* to the caustic.  A list l is held as Some(l), apart from None.
AngleLoop(c, n_angles) ==
    LET roots == RootsInOrder(n_angles)
    IN  [c EXCEPT
           !.critical_curve = Some([x |-> Val(@).x \o Map(Real, roots),
                                    y |-> Val(@).y \o Map(Imag, roots)]),
           !.x = Some(Val(@) \o [i \in 1..Len(roots) |-> SourceReal(c, roots[i])]),
           !.y = Some(Val(@) \o [i \in 1..Len(roots) |-> SourceImag(c, roots[i])])]

\* ResetLists that keeps the lists of an earlier call.
ResetLists_Keep(c) ==
    IF IsNone(c.x)
    THEN [c EXCEPT !.x = Some(<<>>), !.y = Some(<<>>),
                   !.critical_curve = Some([x |-> <<>>, y |-> <<>>])]
    ELSE c

\* Lines 43-46: the lists are made empty.
ResetLists(c) ==
    [c EXCEPT !.x = Some(<<>>), !.y = Some(<<>>),
              !.critical_curve = Some([x |-> <<>>, y |-> <<>>])]

\* Line 52: the denominator (1-K)*eiphi + conj(G) of soln is zero for every
\* angle when K = 1 and G = 0, and 1/0 raises ZeroDivisionError.  For the other
\* real K and G of the inputs it is not zero at any sampled angle.
SolnUndefined(c) == 1 - c.convergence_K = 0 /\ c.shear_G = 0

\* The exception _calculate ends in: the first angle raises, if there is one.
CalculateExc(c, n_points) ==
    IF NAngles(n_points) > 0 /\ SolnUndefined(c) THEN "ZeroDivisionError" ELSE ""

\* _calculate(n_points), lines 31-61.  n_points of the record is the argument
\* of the last call that returned.
CalculateResult(c, n_points) ==
    IF CalculateExc(c, n_points) # "" THEN ResetLists(c)
    ELSE [AngleLoop(ResetLists(c), NAngles(n_points)) EXCEPT !.n_points = Some(n_points)]

\* ------------------------------------------------------------ absent parts
\* The values of the variables a specification does not use.
NoResult == [op |-> "none"]
NoCount == [model |-> 0, lens |-> 0, cpws |-> 0]
NoCpws == NewCaustics(0, 0)
NoLens == [s |-> None, epsilon |-> None, total_mass |-> None, caustic |-> None]
NoModel2 == [exists |-> FALSE, same |-> FALSE, parameters |-> EmptyParameters]

ModelIs(m, e) ==
    /\ exists = e
    /\ parameters = m.parameters
    /\ t_0_par = m.t_0_par
    /\ coords = m.coords
    /\ ephemerides_file = m.ephemerides_file
    /\ parallax = m.parallax
    /\ default_method = m.default_method
    /\ methods = m.methods
    /\ caustics = m.caustics
    /\ bandpasses = m.bandpasses
    /\ limb_darkening_coeffs = m.limb_darkening_coeffs

ModelBecomes(m, e) ==
    /\ exists' = e
    /\ parameters' = m.parameters
    /\ t_0_par' = m.t_0_par
    /\ coords' = m.coords
    /\ ephemerides_file' = m.ephemerides_file
    /\ parallax' = m.parallax
    /\ default_method' = m.default_method
    /\ methods' = m.methods
    /\ caustics' = m.caustics
    /\ bandpasses' = m.bandpasses
    /\ limb_darkening_coeffs' = m.limb_darkening_coeffs

\* No Model has been constructed.
Unconstructed == ModelIs(NoModel(Start(NoArgs)), FALSE)

\* ---------------------------------------------- constructor specification
\* ModelParameters objects a caller may hand to Model(parameters=...).
BinaryParameters(v) ==
    [EmptyParameters EXCEPT !.s = Some(v), !.q = Some(v), !.alpha = Some(v)]
ParametersArgs ==
    {NoParameters, [kind |-> "other", v |-> <<>>],
     [kind |-> "ModelParameters", v |-> <<EmptyParameters>>]}
    \cup {[kind |-> "ModelParameters", v |-> <<BinaryParameters(v)>>] : v \in Vals}

\* The frame pi_E_ref is given with pi_E_N only.
InitArgs ==
    {a \in
       [parameters : ParametersArgs, t_0 : {None, Some(1)}, u_0 : {None, Some(1)},
        t_E : {None, Some(1)}, rho : {None}, s : OptVals, q : QArgs, alpha : OptVals,
        pi_E_N : {None, Some(1)}, pi_E_E : {None, Some(2)},
        pi_E_ref : {None, Some("ParPerp")},
        t_0_par : {None}, coords : {None}, ra : {None, Some(1)}, dec : {None, Some(1)},
        ephemerides_file : {None, Some("file")}] :
       ~IsNone(a.pi_E_ref) => ~IsNone(a.pi_E_N)}

\* Model(...): Model.__init__, lines 53-165.
ModelInit(a) ==
    /\ LET st == Constructor(a)
       IN  /\ IF st.exc = "" THEN ModelBecomes(NewModel(st, a), TRUE)
                             ELSE ModelBecomes(NoModel(st), FALSE)
           /\ result' = [op |-> "__init__", exc |-> st.exc, args |-> a]
    /\ UNCHANGED <<computed, cpws, lens, model_2>>

InitInit ==
    /\ Unconstructed
    /\ result = NoResult
    /\ computed = NoCount
    /\ cpws = NoCpws
    /\ lens = NoLens
    /\ model_2 = NoModel2

\* One constructor call is followed: it builds its object from its arguments
\* alone.
NextInit == result.op = "none" /\ \E a \in InitArgs : ModelInit(a)

SpecInit == InitInit /\ [][NextInit]_vars

ConstructorCalled == result.op = "__init__"
Given(a) == <<~IsNone(a.s), a.q.kind # "none", ~IsNone(a.alpha)>>
SomeButNotAll(a) ==
    /\ TRUE \in {Given(a)[i] : i \in 1..3}
    /\ FALSE \in {Given(a)[i] : i \in 1..3}

\* The arguments that no other test of the constructor rejects.
OtherwiseValid(a) ==
    /\ a.parameters.kind # "other"
    /\ a.q.kind = "list" => Len(a.q.v) = 1
    /\ IsNone(a.pi_E_N) <=> IsNone(a.pi_E_E)
    /\ ~IsNone(a.ra) => ~IsNone(a.dec)

\* C1: a constructor call that is given at least one but not all three of
\* (s, q, alpha) ends in an exception and yields no Model; a call that is
\* given none of them or all three, and that no other test rejects, returns
\* a Model.
C1_BinaryAllOrNone ==
    ConstructorCalled =>
        /\ SomeButNotAll(result.args) => result.exc # "" /\ ~exists
        /\ ~SomeButNotAll(result.args) /\ OtherwiseValid(result.args)
              => result.exc = "" /\ exists

C1_Witness ==
    /\ ConstructorCalled
    /\ ~IsNone(result.args.s) /\ result.args.q.kind = "scalar" /\ IsNone(result.args.alpha)
    /\ result.args.parameters.kind = "none"
    /\ result.exc = "AttributeError"

\* The q of the ModelParameters object before the constructor ran.
QBefore(a) ==
    IF a.parameters.kind = "ModelParameters" THEN a.parameters.v[1].q ELSE None

\* C2: when the constructor reaches its handling of q (the parameters
\* argument is a ModelParameters object or absent) and q is a list or array:
\* a q of length 1 is stored as its element, and a q of more than one element
\* raises NotImplementedError with the object's q left as it was.
C2_QSequence ==
    ConstructorCalled /\ result.args.q.kind = "list"
                      /\ result.args.parameters.kind # "other" =>
        LET v == result.args.q.v
        IN  /\ (Len(v) = 1 => /\ parameters.q = Some(v[1])
                              /\ result.exc \notin {"NotImplementedError", "IndexError"})
            /\ (Len(v) > 1 => /\ result.exc = "NotImplementedError"
                              /\ ~exists
                              /\ parameters.q = QBefore(result.args))

C2_Witness ==
    /\ ConstructorCalled
    /\ result.args.q.kind = "list" /\ Len(result.args.q.v) = 2
    /\ result.args.parameters.kind = "ModelParameters"
    /\ ~IsNone(parameters.q)
    /\ result.exc = "NotImplementedError"

\* ------------------------------------------------- caustics specification
\* The n_points requested: a dense range and the three counts of the
\* specification's examples.
ExampleNPoints == {37, 100, 5000}
NPointsArgs == (0..MaxNPoints) \cup ExampleNPoints
ShearArgs == {0, 1}

\* CausticsPointWithShear._calculate(n_points); computed.cpws counts the calls.
Calculate(n_points) ==
    /\ computed.cpws < MaxCount
    /\ cpws' = CalculateResult(cpws, n_points)
    /\ computed' = [computed EXCEPT !.cpws = @ + 1]
    /\ result' = [op |-> "_calculate", exc |-> CalculateExc(cpws, n_points),
                  n_points |-> n_points]
    /\ UNCHANGED <<modelVars, lens, model_2>>

InitCaustics ==
    /\ Unconstructed
    /\ result = NoResult
    /\ computed = NoCount
    /\ lens = NoLens
    /\ model_2 = NoModel2
    /\ \E K \in ShearArgs, G \in ShearArgs : cpws = NewCaustics(K, G)

NextCaustics == \E n \in NPointsArgs : Calculate(n)

SpecCaustics == InitCaustics /\ [][NextCaustics]_vars

\* The integer nearest to n/4, a half rounded up.
RoundQuarter(n) == CHOOSE k \in 0..(n + 1) : 4 * k - 2 <= n /\ n < 4 * k + 2

Calculated == ~IsNone(cpws.n_points)

C4_NearestMultipleOf4 ==
    Calculated =>
        LET n == Val(cpws.n_points)
            total == Len(Val(cpws.x))
        IN  /\ total = Len(Val(cpws.critical_curve).x)
            /\ total % 4 = 0
            /\ total - n <= 2 /\ n - total <= 2

\* ------------------------------------------------ Model: setters, caustics
\* Lines 1044-1045: the Caustics object plot_caustics plots: the one stored,
\* or Caustics(q=self.q, s=self.s) when none is stored.
CausticsToPlot(c, p) ==
    IF IsNone(c) THEN Some([q |-> p.q, s |-> p.s]) ELSE c

\* History: the count of computations restarts when q or s changes.
CountAfterChange(which, old, new) ==
    IF old.q # new.q \/ old.s # new.s THEN [computed EXCEPT ![which] = 0] ELSE computed

\* Model.s = value, lines 266-268.
Model_s_setter(value) ==
    /\ exists
    /\ parameters' = [parameters EXCEPT !.s = Some(value)]
    /\ computed' = CountAfterChange("model", parameters, parameters')
    /\ result' = [op |-> "s.setter"]
    /\ UNCHANGED <<exists, t_0_par, coords, ephemerides_file, parallax,
                   default_method, methods, caustics, bandpasses,
                   limb_darkening_coeffs, cpws, lens, model_2>>

\* Model.q = value, lines 275-277.
Model_q_setter(value) ==
    /\ exists
    /\ parameters' = [parameters EXCEPT !.q = Some(value)]
    /\ computed' = CountAfterChange("model", parameters, parameters')
    /\ result' = [op |-> "q.setter"]
    /\ UNCHANGED <<exists, t_0_par, coords, ephemerides_file, parallax,
                   default_method, methods, caustics, bandpasses,
                   limb_darkening_coeffs, cpws, lens, model_2>>

\* The arguments of set_parameters with their defaults (line 296).
SetParametersDefaults ==
    [t_0 |-> Some(0), u_0 |-> None, t_E |-> Some(1), rho |-> None, s |-> None,
     q |-> None, alpha |-> None, pi_E_N |-> None, pi_E_E |-> None, pi_E_ref |-> None]

\* The keywords of a call hold None for an argument that is not passed; the
\* arguments are the keywords, and the defaults for the rest.
SetParametersBind(kw) ==
    [t_0 |-> IF IsNone(kw.t_0) THEN SetParametersDefaults.t_0 ELSE kw.t_0,
     u_0 |-> IF IsNone(kw.u_0) THEN SetParametersDefaults.u_0 ELSE kw.u_0,
     t_E |-> IF IsNone(kw.t_E) THEN SetParametersDefaults.t_E ELSE kw.t_E,
     rho |-> IF IsNone(kw.rho) THEN SetParametersDefaults.rho ELSE kw.rho,
     s |-> IF IsNone(kw.s) THEN SetParametersDefaults.s ELSE kw.s,
     q |-> IF IsNone(kw.q) THEN SetParametersDefaults.q ELSE kw.q,
     alpha |-> IF IsNone(kw.alpha) THEN SetParametersDefaults.alpha ELSE kw.alpha,
     pi_E_N |-> IF IsNone(kw.pi_E_N) THEN SetParametersDefaults.pi_E_N ELSE kw.pi_E_N,
     pi_E_E |-> IF IsNone(kw.pi_E_E) THEN SetParametersDefaults.pi_E_E ELSE kw.pi_E_E,
     pi_E_ref |-> IF IsNone(kw.pi_E_ref) THEN SetParametersDefaults.pi_E_ref
                  ELSE kw.pi_E_ref]

\* What the second Model reads as its parameters: the object of the first
\* Model while it holds that object, else its own.
Parameters2 == IF model_2.same THEN parameters ELSE model_2.parameters

\* A Model that is given a new parameters object leaves the object it held
\* to the other Model that holds it.
Parted(m2, old) ==
    IF m2.same THEN [m2 EXCEPT !.same = FALSE, !.parameters = old] ELSE m2

\* Model.set_parameters(...), lines 296-307: a new ModelParameters object
\* made of the arguments becomes the object of the Model; when its
\* construction raises, the Model keeps the object it has.
set_parameters(kw) ==
    /\ exists
    /\ LET a == SetParametersBind(kw)
           ok == ~ParametersInvalid(a)
       IN  /\ parameters' = IF ok THEN a ELSE parameters
           /\ model_2' = IF ok THEN Parted(model_2, parameters) ELSE model_2
           /\ result' = [op |-> "set_parameters", self |-> 1,
                         exc |-> IF ok THEN "" ELSE "InvalidParameter",
                         kw |-> kw, before |-> parameters, other |-> Parameters2]
    /\ computed' = CountAfterChange("model", parameters, parameters')
    /\ UNCHANGED <<exists, t_0_par, coords, ephemerides_file, parallax,
                   default_method, methods, caustics, bandpasses,
                   limb_darkening_coeffs, cpws, lens>>

\* Model.plot_caustics(n_points), lines 1033-1047.  The result records the
\* Caustics object that is plotted; repeat tells that the call before was a
\* plot_caustics too, and same that it plotted the same object.
plot_caustics(n_points) ==
    /\ exists
    /\ IsNone(caustics) => computed.model < MaxCount
    /\ caustics' = CausticsToPlot(caustics, parameters)
    /\ computed' = IF IsNone(caustics) THEN [computed EXCEPT !.model = @ + 1]
                                       ELSE computed
    /\ result' = [op |-> "plot_caustics", caustics |-> Val(caustics'),
                  n_points |-> n_points,
                  repeat |-> result.op = "plot_caustics",
                  same |-> result.op = "plot_caustics" /\ result.caustics = Val(caustics')]
    /\ UNCHANGED <<exists, parameters, t_0_par, coords, ephemerides_file, parallax,
                   default_method, methods, bandpasses,
                   limb_darkening_coeffs, cpws, lens, model_2>>

\* ------------------------------------------------------ cache specification
\* A Model as its constructor leaves it: a point lens, or a binary lens with
\* s, q and alpha.
CacheInitArgs ==
    {[NoArgs EXCEPT !.t_0 = Some(1), !.u_0 = Some(1), !.t_E = Some(1)]}
    \cup {[NoArgs EXCEPT !.t_0 = Some(1), !.u_0 = Some(1), !.t_E = Some(1),
                         !.s = Some(s), !.q = [kind |-> "scalar", v |-> <<q>>],
                         !.alpha = Some(1)] : s \in Vals, q \in Vals}

\* Keywords of set_parameters: s, q and alpha, each passed or not.
SetParametersArgs ==
    {[EmptyParameters EXCEPT !.s = s, !.q = q, !.alpha = al] :
        s \in OptVals, q \in OptVals, al \in {None, Some(1)}}

InitCache ==
    /\ \E a \in CacheInitArgs :
          /\ Constructor(a).exc = ""
          /\ ModelIs(NewModel(Constructor(a), a), TRUE)
    /\ result = NoResult
    /\ computed = NoCount
    /\ cpws = NoCpws
    /\ lens = NoLens
    /\ model_2 = NoModel2

NextCache ==
    \/ \E v \in Vals : Model_s_setter(v)
    \/ \E v \in Vals : Model_q_setter(v)
    \/ \E a \in SetParametersArgs : set_parameters(a)
    \/ plot_caustics(5000)

SpecCache == InitCache /\ [][NextCache]_vars

\* C5: a caustics access after q or s changed uses caustics computed for the
\* new (q, s): what plot_caustics plots is always made for the current
\* (q, s) of the model.
C5_CacheInvalidated ==
    /\ result.op = "plot_caustics"
    /\ ~IsNone(parameters.q) /\ ~IsNone(parameters.s)
    /\ ~IsNone(result.caustics.q) /\ ~IsNone(result.caustics.s)
    => /\ result.caustics.q = parameters.q
       /\ result.caustics.s = parameters.s

\* ------------------------------------------------------------------- Lens
\* np.sum of an array.
RECURSIVE Sum(_)
Sum(seq) == IF Len(seq) = 0 THEN 0 ELSE seq[1] + Sum(Tail(seq))

\* Lens.q = new_q, lines 176-194, for a scalar new_q.  An array of fractions
\* num[i] / den is held as [num, den].  new_q is rebound by np.insert before
\* its size is compared; a _total_mass that was never set is the
\* AttributeError of case 1.
LensSetQ(l, q) ==
    LET new_q == <<1, q>>
        epsilon == [num |-> new_q, den |-> Sum(new_q)]
    IN  [l EXCEPT
           !.epsilon = Some(epsilon),
           !.total_mass =
               IF Len(new_q) = Len(epsilon.num) - 1 THEN @
               ELSE IF IsNone(@) THEN @
               ELSE Some(Val(@) * Sum(new_q))]

\* Lens.__init__, lines 5-40, for the arguments (q, s) and (q, s, mass_1).
NewLens(q, s, mass_1) ==
    LET l0 == [s |-> None, epsilon |-> None, total_mass |-> None, caustic |-> None]
        l1 == [LensSetQ(l0, q) EXCEPT !.s = Some(s)]
    IN  IF IsNone(mass_1) THEN l1
        ELSE [l1 EXCEPT !.total_mass = Some(Val(mass_1) * (1 + q))]

\* Lines 270-275: _calculate_caustics has no statement but pass: it returns None.
CalculateCaustics(l) == None

\* Lens.caustic, lines 253-261.
LensCaustic(l) ==
    IF IsNone(l.caustic) THEN [l EXCEPT !.caustic = CalculateCaustics(l)] ELSE l

\* History: the count of computations restarts when q or s of the lens changes.
LensCountAfterChange(old, new) ==
    IF old.epsilon # new.epsilon \/ old.s # new.s THEN [computed EXCEPT !.lens = 0]
    ELSE computed

\* lens.q = value
Lens_q_setter(value) ==
    /\ ~IsNone(LensSetQ(lens, value).total_mass)
          => Val(LensSetQ(lens, value).total_mass) <= MaxMass
    /\ lens' = LensSetQ(lens, value)
    /\ computed' = LensCountAfterChange(lens, lens')
    /\ result' = [op |-> "Lens.q.setter", exc |-> "", value |-> value, before |-> lens]
    /\ UNCHANGED <<modelVars, cpws, model_2>>

\* lens.s = value, lines 205-207.
Lens_s_setter(value) ==
    /\ lens' = [lens EXCEPT !.s = Some(value)]
    /\ computed' = LensCountAfterChange(lens, lens')
    /\ result' = [op |-> "Lens.s.setter"]
    /\ UNCHANGED <<modelVars, cpws, model_2>>

\* lens.caustic: the result records the value returned; repeat tells that the
\* call before was an access too, and same that it returned the same value.
Lens_caustic ==
    /\ IsNone(lens.caustic) => computed.lens < MaxCount
    /\ lens' = LensCaustic(lens)
    /\ computed' = IF IsNone(lens.caustic) THEN [computed EXCEPT !.lens = @ + 1]
                                           ELSE computed
    /\ result' = [op |-> "Lens.caustic", value |-> lens'.caustic,
                  repeat |-> result.op = "Lens.caustic",
                  same |-> result.op = "Lens.caustic" /\ result.value = lens'.caustic]
    /\ UNCHANGED <<modelVars, cpws, model_2>>

\* ------------------------------------------------------- lens specification
InitLens ==
    /\ Unconstructed
    /\ result = NoResult
    /\ computed = NoCount
    /\ cpws = NoCpws
    /\ \E q \in Vals, s \in Vals, m \in {None, Some(1)} : lens = NewLens(q, s, m)
    /\ model_2 = NoModel2

NextLens ==
    \/ \E v \in Vals : Lens_q_setter(v)
    \/ \E v \in Vals : Lens_s_setter(v)
    \/ Lens_caustic

SpecLens == InitLens /\ [][NextLens]_vars

\* C6: caustics are computed on the first access and memoized: an access
\* that follows an access returns the same result, and between two changes
\* of (q, s) the computation runs at most once, for Model.plot_caustics and
\* for Lens.caustic.
C6_Memoized ==
    /\ computed.model <= 1
    /\ computed.lens <= 1
    /\ (result.op \in {"plot_caustics", "Lens.caustic"} /\ result.repeat => result.same)

\* ------------------------------------------- Model: magnification settings
\* Model.set_default_magnification_method(method), lines 1081-1089.
set_default_magnification_method(method) ==
    /\ exists
    /\ default_method' = method
    /\ result' = [op |-> "set_default_magnification_method"]
    /\ UNCHANGED <<exists, parameters, t_0_par, coords, ephemerides_file, parallax,
                   methods, caustics, bandpasses,
                   limb_darkening_coeffs, computed, cpws, lens, model_2>>

\* Model.set_magnification_methods(methods), lines 1091-1105.  A schedule
\* [t_1, m_1, t_2, ..., m_k, t_k+1] is the sequence <<t_1, m_1, ..., t_k+1>>.
set_magnification_methods(schedule) ==
    /\ exists
    /\ methods' = Some(schedule)
    /\ result' = [op |-> "set_magnification_methods"]
    /\ UNCHANGED <<exists, parameters, t_0_par, coords, ephemerides_file, parallax,
                   default_method, caustics, bandpasses,
                   limb_darkening_coeffs, computed, cpws, lens, model_2>>

\* ParallaxSet with False for a flag that is not given.
ParallaxSet_Reset(flags, earth_orbital, satellite, topocentric) ==
    [earth_orbital |-> ~IsNone(earth_orbital) /\ Val(earth_orbital),
     satellite |-> ~IsNone(satellite) /\ Val(satellite),
     topocentric |-> ~IsNone(topocentric) /\ Val(topocentric)]

\* Lines 542-547: the flags that are given are set.
ParallaxSet(flags, earth_orbital, satellite, topocentric) ==
    [earth_orbital |-> IF IsNone(earth_orbital) THEN flags.earth_orbital
                       ELSE Val(earth_orbital),
     satellite |-> IF IsNone(satellite) THEN flags.satellite ELSE Val(satellite),
     topocentric |-> IF IsNone(topocentric) THEN flags.topocentric
                     ELSE Val(topocentric)]

\* Model.parallax(earth_orbital, satellite, topocentric), lines 517-547:
\* without arguments the flags are returned.  The result records the
\* arguments and the flags before the call.
Model_parallax(earth_orbital, satellite, topocentric) ==
    /\ exists
    /\ LET args == [earth_orbital |-> earth_orbital, satellite |-> satellite,
                    topocentric |-> topocentric]
       IN  IF IsNone(earth_orbital) /\ IsNone(satellite) /\ IsNone(topocentric)
           THEN /\ parallax' = parallax
                /\ result' = [op |-> "parallax", value |-> Some(parallax),
                              args |-> args, before |-> parallax]
           ELSE /\ parallax' = ParallaxSet(parallax, earth_orbital, satellite, topocentric)
                /\ result' = [op |-> "parallax", value |-> None,
                              args |-> args, before |-> parallax]
    /\ UNCHANGED <<exists, parameters, t_0_par, coords, ephemerides_file,
                   default_method, methods, caustics, bandpasses,
                   limb_darkening_coeffs, computed, cpws, lens, model_2>>

\* ------------------------------------------------- Model.magnification
\* The time argument: [kind, v] with kind "ndarray", "list", "float" or
\* "other" and v the sequence of its epochs.
\* Lines 352-358: a float becomes an array of one epoch, a list an array;
\* anything else is a TypeError.
\* The type test with its last branch left out: nothing is rejected.
TimeTypeError_Never(time) == FALSE

TimeTypeError(time) == time.kind \notin {"ndarray", "list", "float"}

\* A float is held boxed, as Some(value): np.array([time]) has one epoch.
TimeArray(time) == IF time.kind = "float" THEN <<Val(time.v)>> ELSE time.v

\* The position a satellite has at an epoch, read from the ephemerides.
SatellitePosition(file, t) == <<file, t>>

\* get_satellite_coords returning no positions, not None, without a file.
get_satellite_coords_Strict(file, times) ==
    IF IsNone(file) THEN Some(<<>>)
    ELSE Some([i \in 1..Len(times) |-> SatellitePosition(Val(file), times[i])])

\* Model.get_satellite_coords(times), lines 309-328: None without an
\* ephemerides file, else one position per epoch.
get_satellite_coords(file, times) ==
    IF IsNone(file) THEN None
    ELSE Some([i \in 1..Len(times) |-> SatellitePosition(Val(file), times[i])])

\* The satellite positions taken from the ephemerides whatever was passed.
SkycoordForCurve_Ignore(satellite_skycoord, file, times) ==
    get_satellite_coords(file, times)

\* Lines 360-361: the positions passed, or those of get_satellite_coords.
SkycoordForCurve(satellite_skycoord, file, times) ==
    IF IsNone(satellite_skycoord) THEN get_satellite_coords(file, times)
    ELSE satellite_skycoord

\* The curve set up without the schedule of the model.
CurveArguments_NoMethods(times, skycoord, gamma, m) ==
    [time |-> times, parameters |-> m.parameters, parallax |-> m.parallax,
     t_0_par |-> m.t_0_par, coords |-> m.coords, satellite_skycoord |-> skycoord,
     gamma |-> gamma, methods |-> None, default_method |-> m.default_method]

\* The curve set up with the default method of a new Model.
CurveArguments_FixedDefault(times, skycoord, gamma, m) ==
    [time |-> times, parameters |-> m.parameters, parallax |-> m.parallax,
     t_0_par |-> m.t_0_par, coords |-> m.coords, satellite_skycoord |-> skycoord,
     gamma |-> gamma, methods |-> m.methods, default_method |-> "point_source"]

\* Lines 363-370: what the MagnificationCurve is constructed with, and the
\* schedule and default method it is then given; m holds the fields of self.
CurveArguments(times, skycoord, gamma, m) ==
    [time |-> times, parameters |-> m.parameters, parallax |-> m.parallax,
     t_0_par |-> m.t_0_par, coords |-> m.coords, satellite_skycoord |-> skycoord,
     gamma |-> gamma, methods |-> m.methods, default_method |-> m.default_method]

\* ---- MagnificationCurve (MulensModel.magnificationcurve, Trajectory)
\* The recognized method names.
Recognized == {"point_source", "quadrupole", "hexadecapole", "VBBL"}

\* The indices of the breakpoints t_i that open an interval of a schedule.
Intervals(schedule) == {i \in 1..(Len(schedule) - 2) : i % 2 = 1}

\* The method names of a schedule.
ScheduleMethods(schedule) == {schedule[i + 1] : i \in Intervals(schedule)}

\* Satellite positions must be one per epoch.
CurveInvalidInput(c) ==
    ~IsNone(c.satellite_skycoord) /\ Len(Val(c.satellite_skycoord)) # Len(c.time)

\* A name outside the recognized set, in the schedule or as the default.
CurveUnknownMethod(c) ==
    \/ c.default_method \notin Recognized
    \/ ~IsNone(c.methods) /\ ~(ScheduleMethods(Val(c.methods)) \subseteq Recognized)

\* The method of an epoch: that of the interval [t_i, t_i+1) it falls in,
\* else the default.
MethodFor(t, c) ==
    IF IsNone(c.methods) THEN c.default_method
    ELSE LET hit == {i \in Intervals(Val(c.methods)) :
                        Val(c.methods)[i] <= t /\ t < Val(c.methods)[i + 2]}
         IN  IF hit = {} THEN c.default_method
             ELSE Val(c.methods)[(CHOOSE i \in hit : \A j \in hit : i <= j) + 1]

\* Satellite parallax enters an evaluation that has satellite positions; the
\* model alone, without them, is evaluated without it (the caveat of the
\* class docstring of Model).
SatelliteParallax(c) == c.parallax.satellite /\ ~IsNone(c.satellite_skycoord)

\* The magnification of one epoch, as what determines it.
PointMagnification(i, c) ==
    [time |-> c.time[i], method |-> MethodFor(c.time[i], c),
     satellite |-> IF SatelliteParallax(c) THEN Some(Val(c.satellite_skycoord)[i])
                   ELSE None,
     gamma |-> c.gamma]

\* magnification_curve.magnification: an exception or one value per epoch.
CurveMagnification(c) ==
    IF CurveInvalidInput(c) THEN [exc |-> "InvalidInput", magnification |-> None]
    ELSE IF CurveUnknownMethod(c) THEN [exc |-> "UnknownMethod", magnification |-> None]
    ELSE [exc |-> "",
          magnification |-> Some([i \in 1..Len(c.time) |-> PointMagnification(i, c)])]

\* Model.magnification(time, satellite_skycoord, gamma), lines 330-371, on the
\* Model with the fields m.
MagnificationResult(time, satellite_skycoord, gamma, m) ==
    IF TimeTypeError(time) THEN [exc |-> "TypeError", magnification |-> None]
    ELSE CurveMagnification(
             CurveArguments(TimeArray(time),
                            SkycoordForCurve(satellite_skycoord, m.ephemerides_file,
                                             TimeArray(time)),
                            gamma, m))

Self ==
    [parameters |-> parameters, t_0_par |-> t_0_par, coords |-> coords,
     ephemerides_file |-> ephemerides_file, parallax |-> parallax,
     default_method |-> default_method, methods |-> methods,
     caustics |-> caustics, bandpasses |-> bandpasses,
     limb_darkening_coeffs |-> limb_darkening_coeffs]

\* model.magnification(time, satellite_skycoord, gamma)
Model_magnification(time, satellite_skycoord, gamma) ==
    /\ exists
    /\ LET r == MagnificationResult(time, satellite_skycoord, gamma, Self)
       IN  result' = [op |-> "magnification", exc |-> r.exc,
                      magnification |-> r.magnification, time |-> time,
                      satellite_skycoord |-> satellite_skycoord, gamma |-> gamma]
    /\ UNCHANGED <<modelVars, computed, cpws, lens, model_2>>

\* ----------------------------------------------- magnification specification
Epochs == 0..MaxTime
SeqsUpTo(S, n) == UNION {[1..k -> S] : k \in 1..n}

\* Time arguments: arrays of 1..MaxLen epochs, lists of one epoch, a float,
\* and a value of another type.
TimeArgs ==
    {[kind |-> "ndarray", v |-> s] : s \in SeqsUpTo(Epochs, MaxLen)}
    \cup {[kind |-> "list", v |-> <<e>>] : e \in Epochs}
    \cup {[kind |-> "float", v |-> <<e>>] : e \in Epochs}
    \cup {[kind |-> "other", v |-> <<>>]}

\* Satellite positions passed by the caller: none, or 1..MaxLen positions.
SkycoordArgs ==
    {None} \cup {Some([i \in 1..k |-> <<"caller", i>>]) : k \in 1..MaxLen}

\* Schedules of one interval and of two, with recognized names and a name
\* that is not.
ScheduleArgs ==
    {<<a, m, b>> : a \in Epochs, b \in Epochs, m \in {"quadrupole", "bogus"}}
    \cup {<<a, m[1], b, m[2], c>> : a \in Epochs, b \in Epochs, c \in Epochs,
              m \in {<<"quadrupole", "hexadecapole">>, <<"hexadecapole", "bogus">>}}
SortedSchedule(s) == \A i \in Intervals(s) : s[i] < s[i + 2]

MagInitArgs ==
    {[NoArgs EXCEPT !.t_0 = Some(1), !.u_0 = Some(1), !.t_E = Some(1),
                    !.ephemerides_file = f] : f \in {None, Some("file")}}

InitMag ==
    /\ \E a \in MagInitArgs :
          /\ Constructor(a).exc = ""
          /\ ModelIs(NewModel(Constructor(a), a), TRUE)
    /\ result = NoResult
    /\ computed = NoCount
    /\ cpws = NoCpws
    /\ lens = NoLens
    /\ model_2 = NoModel2

SortedSchedules == {s \in ScheduleArgs : SortedSchedule(s)}

\* An evaluation changes no field of the model, so an evaluation that follows
\* an evaluation reaches nothing new: evaluations are followed from the
\* states the other calls leave.
NextMag ==
    \/ \E m \in {"point_source", "bogus"} : set_default_magnification_method(m)
    \/ \E s \in SortedSchedules : set_magnification_methods(s)
    \/ \E f \in {None, Some(TRUE), Some(FALSE)} : Model_parallax(None, f, None)
    \/ /\ result.op # "magnification"
       /\ \E time \in TimeArgs, sky \in SkycoordArgs : Model_magnification(time, sky, 0)

SpecMag == InitMag /\ [][NextMag]_vars

Evaluated == result.op = "magnification" /\ ~TimeTypeError(result.time)
Returned == Evaluated /\ result.exc = ""

\* C7: with the schedule [t_1, m_1, t_2, ..., m_k, t_k+1] set on the model,
\* an epoch t with t_i <= t < t_i+1 is evaluated with m_i and an epoch in no
\* interval with the default method.
C7_ScheduleIntervals ==
    Returned /\ ~IsNone(methods) =>
        LET s == Val(methods)
            m == Val(result.magnification)
        IN  \A n \in 1..Len(m) :
              /\ \A i \in Intervals(s) :
                    s[i] <= m[n].time /\ m[n].time < s[i + 2] => m[n].method = s[i + 1]
              /\ (\A i \in Intervals(s) : m[n].time < s[i] \/ s[i + 2] <= m[n].time)
                    => m[n].method = default_method

\* An epoch at t_1 evaluated with m_1 and an epoch at t_2 with the default.
C7_Witness ==
    /\ Returned
    /\ methods = Some(<<0, "quadrupole", 1>>)
    /\ default_method = "point_source"
    /\ result.time.v = <<0, 1>>
    /\ Val(result.magnification)[1].method = "quadrupole"
    /\ Val(result.magnification)[2].method = "point_source"

UnknownConfigured ==
    \/ default_method \notin Recognized
    \/ ~IsNone(methods) /\ \E i \in Intervals(Val(methods)) :
                               Val(methods)[i + 1] \notin Recognized

C9_SatelliteLength ==
    /\ Evaluated
    /\ ~IsNone(result.satellite_skycoord)
    /\ Len(Val(result.satellite_skycoord)) # Len(TimeArray(result.time))
    => result.exc = "InvalidInput" /\ IsNone(result.magnification)

C9_Witness ==
    /\ Evaluated
    /\ ~IsNone(result.satellite_skycoord)
    /\ Len(Val(result.satellite_skycoord)) = 1
    /\ Len(TimeArray(result.time)) = 2
    /\ result.exc = "InvalidInput"

NoSatellitePosition ==
    /\ Evaluated
    /\ parallax.satellite
    /\ IsNone(result.satellite_skycoord)
    /\ IsNone(ephemerides_file)

C11_OnePerTime ==
    result.op = "magnification" =>
        /\ (result.time.kind \notin {"ndarray", "list", "float"}
               => result.exc = "TypeError" /\ IsNone(result.magnification))
        /\ (result.time.kind \in {"ndarray", "list", "float"}
               => result.exc # "TypeError")
        /\ (result.exc = "" =>
               LET m == Val(result.magnification)
               IN  /\ Len(m) = Len(result.time.v)
                   /\ \A i \in 1..Len(m) : m[i].time = result.time.v[i]
                   /\ (result.time.kind = "float" => Len(m) = 1))

\* Two epochs given in decreasing order come back in that order.
C11_Witness ==
    /\ Returned
    /\ result.time = [kind |-> "ndarray", v |-> <<2, 0>>]
    /\ Val(result.magnification)[1].time = 2
    /\ Val(result.magnification)[2].time = 0

\* --------------------------------------------- Model: calls of the setters
\* model.<field> = value with the outcome r of the setter: the object of the
\* Model is written in place.  The result records what the object held before
\* and what the second Model read before.
SetterCall(op, r, value) ==
    /\ exists
    /\ parameters' = r.p
    /\ result' = [op |-> op, self |-> 1, exc |-> r.exc, value |-> value,
                  before |-> parameters, other |-> Parameters2]
    /\ UNCHANGED <<exists, t_0_par, coords, ephemerides_file, parallax,
                   default_method, methods, caustics, bandpasses,
                   limb_darkening_coeffs, computed,
                   cpws, lens, model_2>>

Model_t_0_setter(value) == SetterCall("t_0.setter", Model_t_0(parameters, Some(value)), value)
Model_u_0_setter(value) == SetterCall("u_0.setter", Model_u_0(parameters, Some(value)), value)
Model_t_E_setter(value) == SetterCall("t_E.setter", Model_t_E(parameters, Some(value)), value)
Model_rho_setter(value) == SetterCall("rho.setter", Model_rho(parameters, Some(value)), value)

\* ------------------------------------------------------- a second Model
\* Model(parameters=model.parameters, ...) when share, else Model(...): the
\* constructor of lines 53-165 run for a second Model.  With share its
\* parameters object is the object of the first Model (line 71), and what
\* the constructor assigns is assigned to that object, also when it raises
\* later on.
Model2_init(a, share) ==
    /\ exists
    /\ ~model_2.exists
    /\ LET args == IF share
                   THEN [a EXCEPT !.parameters = [kind |-> "ModelParameters",
                                                  v |-> <<parameters>>]]
                   ELSE a
           st == Constructor(args)
       IN  /\ parameters' = IF share THEN st.p ELSE parameters
           /\ model_2' = IF st.exc # "" THEN model_2
                         ELSE IF share THEN [exists |-> TRUE, same |-> TRUE,
                                             parameters |-> EmptyParameters]
                         ELSE [exists |-> TRUE, same |-> FALSE, parameters |-> st.p]
           /\ result' = [op |-> "__init__", self |-> 2, exc |-> st.exc,
                         args |-> args, before |-> Parameters2, other |-> parameters]
    /\ UNCHANGED <<exists, t_0_par, coords, ephemerides_file, parallax,
                   default_method, methods, caustics, bandpasses,
                   limb_darkening_coeffs, computed,
                   cpws, lens>>

\* model_2.<field> = value with the outcome r of the setter.
Setter2Call(op, r, value) ==
    /\ model_2.exists
    /\ parameters' = IF model_2.same THEN r.p ELSE parameters
    /\ model_2' = IF model_2.same THEN model_2 ELSE [model_2 EXCEPT !.parameters = r.p]
    /\ result' = [op |-> op, self |-> 2, exc |-> r.exc, value |-> value,
                  before |-> Parameters2, other |-> parameters]
    /\ UNCHANGED <<exists, t_0_par, coords, ephemerides_file, parallax,
                   default_method, methods, caustics, bandpasses,
                   limb_darkening_coeffs, computed,
                   cpws, lens>>

Model2_t_0_setter(value) == Setter2Call("t_0.setter", Model_t_0(Parameters2, Some(value)), value)
Model2_rho_setter(value) == Setter2Call("rho.setter", Model_rho(Parameters2, Some(value)), value)

\* model_2.set_parameters(...), lines 296-307.
Model2_set_parameters(kw) ==
    /\ model_2.exists
    /\ LET a == SetParametersBind(kw)
           ok == ~ParametersInvalid(a)
       IN  /\ model_2' = IF ok THEN [model_2 EXCEPT !.same = FALSE, !.parameters = a]
                               ELSE model_2
           /\ result' = [op |-> "set_parameters", self |-> 2,
                         exc |-> IF ok THEN "" ELSE "InvalidParameter",
                         kw |-> kw, before |-> Parameters2, other |-> parameters]
    /\ UNCHANGED <<modelVars, computed, cpws, lens>>

\* ------------------------------------------ shared parameters specification
\* The first Model is built from keywords; the second from the parameters
\* object of the first or from keywords of its own.
ShareInitArgs ==
    {[NoArgs EXCEPT !.t_0 = Some(t), !.u_0 = Some(1), !.t_E = Some(1), !.rho = r] :
        t \in Vals, r \in {None, Some(0)}}
Share2Args ==
    {[NoArgs EXCEPT !.t_0 = t, !.rho = r] : t \in OptVals, r \in {None, Some(-1), Some(1)}}
ShareKeywords == {[EmptyParameters EXCEPT !.t_0 = t] : t \in OptVals}

InitShare ==
    /\ \E a \in ShareInitArgs :
          /\ Constructor(a).exc = ""
          /\ ModelIs(NewModel(Constructor(a), a), TRUE)
    /\ result = NoResult
    /\ computed = NoCount
    /\ cpws = NoCpws
    /\ lens = NoLens
    /\ model_2 = NoModel2

NextShare ==
    \/ \E a \in Share2Args, share \in BOOLEAN : Model2_init(a, share)
    \/ \E v \in Vals : Model_t_0_setter(v)
    \/ \E v \in 0..MaxVal : Model_rho_setter(v)
    \/ \E kw \in ShareKeywords : set_parameters(kw)
    \/ \E v \in Vals : Model2_t_0_setter(v)
    \/ \E v \in 0..MaxVal : Model2_rho_setter(v)
    \/ \E kw \in ShareKeywords : Model2_set_parameters(kw)

SpecShare == InitShare /\ [][NextShare]_vars

\* The last call was made on the Model self, or constructed it.
CallOn(self) == result.op \in {"__init__", "t_0.setter", "rho.setter", "set_parameters"}
                /\ result.self = self

\* C12: a parameters object is not changed once it exists: a Model that is
\* constructed from an existing object leaves its fields as they were, and
\* what a Model reads as its parameters is not changed by a call on the other
\* Model.
C12_ParametersImmutable ==
    /\ (CallOn(2) /\ result.op = "__init__"
          /\ result.args.parameters.kind = "ModelParameters"
          => parameters = result.args.parameters.v[1])
    /\ (CallOn(2) => parameters = result.other)
    /\ (CallOn(1) /\ model_2.exists => Parameters2 = result.other)

\* ----------------------------------------------- parameters specification
\* A ModelParameters object that exists before the Model is constructed.
GivenParameters ==
    [EmptyParameters EXCEPT !.t_0 = Some(1), !.u_0 = Some(1), !.t_E = Some(1),
                            !.rho = Some(1)]

\* Constructor calls that give t_E and rho, valid or not, with or without
\* an existing parameters object.
ParamInitArgs ==
    {[NoArgs EXCEPT !.parameters = P, !.t_0 = Some(1), !.u_0 = Some(1),
                    !.t_E = te, !.rho = r] :
        P \in {NoParameters, [kind |-> "ModelParameters", v |-> <<GivenParameters>>]},
        te \in {None} \cup {Some(v) : v \in 0..MaxVal},
        r \in {None} \cup {Some(v) : v \in (-1)..MaxVal}}

ParamKeywords ==
    {[EmptyParameters EXCEPT !.t_0 = t, !.t_E = te, !.rho = r] :
        t \in {None, Some(2)}, te \in {None, Some(0), Some(2)},
        r \in {None, Some(-1), Some(1)}}

InitParams == InitInit

NextParams ==
    \/ result.op = "none" /\ \E a \in ParamInitArgs : ModelInit(a)
    \/ \E v \in Vals : Model_t_0_setter(v)
    \/ \E v \in Vals : Model_u_0_setter(v)
    \/ \E v \in 0..MaxVal : Model_t_E_setter(v)
    \/ \E v \in (-1)..MaxVal : Model_rho_setter(v)
    \/ \E kw \in ParamKeywords : set_parameters(kw)

SpecParams == InitParams /\ [][NextParams]_vars

\* What the parameters object held before the constructor ran.
ParametersBefore(a) ==
    IF a.parameters.kind = "ModelParameters" THEN a.parameters.v[1] ELSE EmptyParameters

Negative(o) == ~IsNone(o) /\ Val(o) < 0

\* C13: the rho of a model is never negative: a negative rho given to the
\* constructor ends it in an exception (InvalidParameter when nothing else
\* is wrong) with no Model and the rho of the parameters object as it was,
\* and a negative rho given to the rho setter raises InvalidParameter and
\* leaves the parameters as they were.
C13_RhoNotNegative ==
    /\ ~Negative(parameters.rho)
    /\ (result.op = "__init__" /\ Negative(result.args.rho) =>
           /\ result.exc # "" /\ ~exists
           /\ parameters.rho = ParametersBefore(result.args).rho
           /\ (result.args.t_E # Some(0) => result.exc = "InvalidParameter"))
    /\ (result.op = "rho.setter" /\ result.value < 0 =>
           result.exc = "InvalidParameter" /\ parameters = result.before)

\* A Model with rho = 1 whose rho setter was given -1.
C13_Witness ==
    /\ result.op = "rho.setter" /\ result.value = -1
    /\ result.exc = "InvalidParameter"
    /\ parameters.rho = Some(1)

\* C14: the t_E of a model is never zero: t_E = 0 given to the constructor,
\* to the t_E setter or to set_parameters raises InvalidParameter and leaves
\* the parameters as they were (the constructor: no Model).
C14_TENotZero ==
    /\ parameters.t_E # Some(0)
    /\ (result.op = "__init__" /\ result.args.t_E = Some(0) =>
           /\ result.exc = "InvalidParameter" /\ ~exists
           /\ parameters.t_E = ParametersBefore(result.args).t_E)
    /\ (result.op = "t_E.setter" /\ result.value = 0 =>
           result.exc = "InvalidParameter" /\ parameters = result.before)
    /\ (result.op = "set_parameters" /\ result.kw.t_E = Some(0) =>
           result.exc = "InvalidParameter" /\ parameters = result.before)

\* A Model with t_E = 2 whose set_parameters was given t_E = 0.
C14_Witness ==
    /\ result.op = "set_parameters" /\ result.kw.t_E = Some(0)
    /\ result.exc = "InvalidParameter"
    /\ exists /\ parameters.t_E = Some(2)

\* ------------------------------------------ point lens, point source
\* Fractions [num, den] with den > 0.
Less(a, b) == a.num * b.den < b.num * a.den
Equal(a, b) == a.num * b.den = b.num * a.den

\* The magnification of a point source by a point lens at the separation
\* u = n / d > 0, A(u) = (u^2 + 2) / (u sqrt(u^2 + 4)), held by its square
\* A(u)^2 = (u^2 + 2)^2 / (u^2 (u^2 + 4)), a fraction.  A(u) > 0, so A is
\* ordered as its square is.
PointLensMagnificationSq_Flat(n, d) == [num |-> 1, den |-> 1]

PointLensMagnificationSq(n, d) ==
    [num |-> (n * n + 2 * d * d) * (n * n + 2 * d * d),
     den |-> (n * n) * (n * n + 4 * d * d)]

\* The magnification at u = n / d is evaluated; the result keeps the
\* evaluation before it.
point_lens_magnification(n, d) ==
    /\ result' = [op |-> "point_lens", u |-> [num |-> n, den |-> d],
                  A2 |-> PointLensMagnificationSq(n, d),
                  previous |-> IF result.op = "point_lens"
                               THEN Some([u |-> result.u, A2 |-> result.A2])
                               ELSE None]
    /\ UNCHANGED <<modelVars, computed, cpws, lens, model_2>>

InitPoint == InitInit
NextPoint == \E n \in 1..MaxU, d \in 1..MaxU : point_lens_magnification(n, d)
SpecPoint == InitPoint /\ [][NextPoint]_vars

One == [num |-> 1, den |-> 1]

\* C15: for a point lens and a point source the magnification at u > 0
\* satisfies A^2 u^2 (u^2 + 4) = (u^2 + 2)^2, is at least 1, and of two
\* separations the smaller has the strictly larger magnification (equal
\* separations have equal magnifications).
C15_PointLensMagnification ==
    result.op = "point_lens" =>
        LET n == result.u.num
            d == result.u.den
            A2 == result.A2
        IN  /\ A2.num * (n * n) * (n * n + 4 * d * d)
                  = A2.den * (n * n + 2 * d * d) * (n * n + 2 * d * d)
            /\ ~Less(A2, One)
            /\ (~IsNone(result.previous) =>
                   /\ (Less(Val(result.previous).u, result.u)
                          => Less(A2, Val(result.previous).A2))
                   /\ (Equal(Val(result.previous).u, result.u)
                          => Equal(A2, Val(result.previous).A2)))

\* u = 1/2 evaluated, then u = 3: A^2 = 81/17, then 121/117.
C15_Witness ==
    /\ result.op = "point_lens"
    /\ result.u = [num |-> 3, den |-> 1]
    /\ result.A2 = [num |-> 121, den |-> 117]
    /\ result.previous = Some([u |-> [num |-> 1, den |-> 2],
                               A2 |-> [num |-> 81, den |-> 17]])

\* ---------------------------------------------------------- Model.set_times
\* Times that are not whole are numerators over a common denominator:
\* [den, num] is the array of the num[i] / den.
\* The smallest integer that is at least a / b, for b > 0.
Ceil(a, b) == IF a >= 0 THEN (a + b - 1) \div b ELSE -((-a) \div b)

\* np.arange(start, stop, step) for a step > 0, all three in one unit.
Arange(start, stop, step) ==
    LET n == IF stop > start THEN Ceil(stop - start, step) ELSE 0
    IN  [i \in 1..n |-> start + (i - 1) * step]

\* Line 1079: np.arange(t_start, t_stop + dt, dt).
ArangeTo(start, stop, step) == Arange(start, stop + step, step)

\* set_times(t_range, t_start, t_stop, dt, n_epochs), lines 1049-1079, on a
\* Model with the parameters p (t_0 and t_E set).  t_range is None or
\* Some(<<t_start, t_stop>>), the others None or Some(value).  The outcome
\* is [exc, times]; the unit of the times is 1 / (2 n_epochs).
SetTimes(p, t_range, t_start, t_stop, dt, n_epochs) ==
    LET n == IF IsNone(n_epochs) THEN 1 ELSE Val(n_epochs)
        den == IF n > 0 THEN 2 * n ELSE 2
        start0 == IF ~IsNone(t_range) THEN Some(Val(t_range)[1]) ELSE t_start
        stop0 == IF ~IsNone(t_range) THEN Some(Val(t_range)[2]) ELSE t_stop
        \* n_tE = 1.5: t_0 -+ 1.5 t_E is (2 t_0 -+ 3 t_E) / 2
        start == IF IsNone(start0) THEN (den \div 2) * (2 * Val(p.t_0) - 3 * Val(p.t_E))
                 ELSE den * Val(start0)
        stop == IF IsNone(stop0) THEN (den \div 2) * (2 * Val(p.t_0) + 3 * Val(p.t_E))
                ELSE den * Val(stop0)
        step == IF IsNone(dt) THEN (stop - start) \div n ELSE den * Val(dt)
    IN  IF IsNone(dt) /\ IsNone(n_epochs) THEN [exc |-> "TypeError", times |-> None]
        ELSE IF IsNone(dt) /\ n = 0 THEN [exc |-> "ZeroDivisionError", times |-> None]
        ELSE [exc |-> "", times |-> Some([den |-> den, num |-> ArangeTo(start, stop, step)])]

\* model.set_times(...): a holds the arguments, n_epochs its default when it
\* is not passed.
set_times(a) ==
    /\ exists
    /\ LET r == SetTimes(parameters, a.t_range, a.t_start, a.t_stop, a.dt, a.n_epochs)
       IN  result' = [op |-> "set_times", exc |-> r.exc, times |-> r.times, args |-> a]
    /\ UNCHANGED <<modelVars, computed, cpws, lens, model_2>>

\* ------------------------------------------------------ times specification
\* The calls: every argument passed or not; a step is positive and a start
\* lies before its stop.
SetTimesArgs ==
    [t_range : {None, Some(<<0, 1>>), Some(<<1, 3>>)},
     t_start : {None, Some(-4)}, t_stop : {None, Some(6)}, dt : {None, Some(1)},
     n_epochs : {Some(DefaultEpochs)} \cup {Some(n) : n \in 1..MaxEpochs}]

TimesInitArgs ==
    {[NoArgs EXCEPT !.t_0 = Some(t), !.u_0 = Some(1), !.t_E = Some(te)] :
        t \in Vals, te \in Vals}

InitTimes ==
    /\ \E a \in TimesInitArgs :
          /\ Constructor(a).exc = ""
          /\ ModelIs(NewModel(Constructor(a), a), TRUE)
    /\ result = NoResult
    /\ computed = NoCount
    /\ cpws = NoCpws
    /\ lens = NoLens
    /\ model_2 = NoModel2

NextTimes == result.op = "none" /\ \E a \in SetTimesArgs : set_times(a)

SpecTimes == InitTimes /\ [][NextTimes]_vars

\* The epochs of a returned array are evenly spaced by step (in its unit).
EvenlySpaced(num, step) == \A i \in 1..(Len(num) - 1) : num[i + 1] - num[i] = step

\* C19: set_times with no keywords returns n_epochs = 1000 epochs, evenly
\* spaced, the first t_0 - 1.5 t_E and the last t_0 + 1.5 t_E; with t_range
\* the array starts at t_range[0] whatever t_start is, and runs to
\* t_range[1]; with dt the spacing is dt whatever n_epochs is.
C19_SetTimes ==
    result.op = "set_times" /\ result.exc = "" =>
        LET a == result.args
            t == Val(result.times)
            n == Val(a.n_epochs)
            last == t.num[Len(t.num)]
        IN  /\ (IsNone(a.t_range) /\ IsNone(a.t_start) /\ IsNone(a.t_stop)
                    /\ IsNone(a.dt) /\ n = DefaultEpochs
                 => /\ Len(t.num) = DefaultEpochs
                    /\ 2 * t.num[1] = t.den * (2 * Val(parameters.t_0) - 3 * Val(parameters.t_E))
                    /\ 2 * last = t.den * (2 * Val(parameters.t_0) + 3 * Val(parameters.t_E))
                    /\ EvenlySpaced(t.num, t.num[2] - t.num[1]))
            /\ (~IsNone(a.t_range)
                 => /\ t.num[1] = t.den * Val(a.t_range)[1]
                    /\ last >= t.den * Val(a.t_range)[2]
                    /\ t.num[Len(t.num) - 1] < t.den * Val(a.t_range)[2])
            /\ (~IsNone(a.dt) => EvenlySpaced(t.num, t.den * Val(a.dt)))

\* ------------------------------------------------------------- Trajectory
\* (MulensModel.trajectory).  Angles are whole quarter turns: alpha = k is
\* k * 90 degrees, so that cosine and sine are whole numbers.
Cos4(k) == <<1, 0, -1, 0>>[(k % 4) + 1]
Sin4(k) == <<0, 1, 0, -1>>[(k % 4) + 1]

\* A whole time as a fraction.
Whole(t) == [num |-> t, den |-> 1]

\* The position at the time t = t.num / t.den for the parameters p, x and y
\* as numerators over den: the baseline ((t - t_0) / t_E, u_0), rotated by
\* -alpha when alpha is defined.
TrajectoryPoint(t, p) ==
    LET den == Val(p.t_E) * t.den
        x0 == t.num - Val(p.t_0) * t.den
        y0 == Val(p.u_0) * den
        c == IF IsNone(p.alpha) THEN 1 ELSE Cos4(Val(p.alpha))
        s == IF IsNone(p.alpha) THEN 0 ELSE Sin4(Val(p.alpha))
    IN  [x |-> x0 * c + y0 * s, y |-> y0 * c - x0 * s, den |-> den]

\* A parallax correction is added when a flag is enabled.
ParallaxOffset(flags) == flags.earth_orbital \/ flags.satellite \/ flags.topocentric

\* Trajectory(times, parameters, parallax, ...): x and y, one entry per time.
Trajectory(c) ==
    [x |-> [i \in 1..Len(c.times) |->
               [num |-> TrajectoryPoint(c.times[i], c.parameters).x,
                den |-> TrajectoryPoint(c.times[i], c.parameters).den]],
     y |-> [i \in 1..Len(c.times) |->
               [num |-> TrajectoryPoint(c.times[i], c.parameters).y,
                den |-> TrajectoryPoint(c.times[i], c.parameters).den]],
     parallax_offset |-> ParallaxOffset(c.parallax)]

\* ------------------------------------------------- Model.plot_trajectory
\* The Trajectory set up with the flags of a new Model.
TrajectoryArguments_DefaultFlags(times, skycoord, m) ==
    [times |-> times, parameters |-> m.parameters, parallax |-> DefaultParallax,
     t_0_par |-> m.t_0_par, coords |-> m.coords, satellite_skycoord |-> skycoord]

\* Lines 1017-1020: what the Trajectory is constructed with.
TrajectoryArguments(times, skycoord, m) ==
    [times |-> times, parameters |-> m.parameters, parallax |-> m.parallax,
     t_0_par |-> m.t_0_par, coords |-> m.coords, satellite_skycoord |-> skycoord]

\* Lines 1009-1013: the times given, or those of set_times with the t_range,
\* t_start, t_stop, dt and n_epochs of the call (n_epochs is None when it is
\* not passed).  The outcome is [exc, times], the times fractions.
PlotTimes(a, p) ==
    IF ~IsNone(a.times)
    THEN [exc |-> "", times |-> [i \in 1..Len(Val(a.times)) |-> Whole(Val(a.times)[i])]]
    ELSE LET r == SetTimes(p, a.t_range, a.t_start, a.t_stop, a.dt, a.n_epochs)
         IN  IF r.exc # "" THEN [exc |-> r.exc, times |-> <<>>]
             ELSE [exc |-> "",
                   times |-> [i \in 1..Len(Val(r.times).num) |->
                                 [num |-> Val(r.times).num[i], den |-> Val(r.times).den]]]

\* model.plot_trajectory(...), lines 978-1031: the trajectory is computed and
\* plotted, the arrow is put at the epoch with the index int(len(times)/2),
\* and with caustics the caustics are plotted by plot_caustics.
plot_trajectory(a) ==
    /\ exists
    /\ LET t == PlotTimes(a, parameters)
           sky == SkycoordForCurve(None, ephemerides_file, t.times)
           tr == Trajectory(TrajectoryArguments(t.times, sky, Self))
           exc == IF t.exc # "" THEN t.exc
                  ELSE IF a.arrow /\ Len(t.times) = 0 THEN "IndexError"
                  ELSE ""
           plots == exc = "" /\ a.caustics
       IN  /\ plots /\ IsNone(caustics) => computed.model < MaxCount
           /\ caustics' = IF plots THEN CausticsToPlot(caustics, parameters) ELSE caustics
           /\ computed' = IF plots /\ IsNone(caustics)
                          THEN [computed EXCEPT !.model = @ + 1] ELSE computed
           /\ result' = [op |-> "plot_trajectory", exc |-> exc, args |-> a,
                         times |-> t.times,
                         trajectory |-> IF t.exc = "" THEN Some(tr) ELSE None]
    /\ UNCHANGED <<exists, parameters, t_0_par, coords, ephemerides_file, parallax,
                   default_method, methods, bandpasses,
                   limb_darkening_coeffs, cpws, lens, model_2>>

\* ------------------------------------------------- trajectory specification
\* Point lenses, and binary lenses with every alpha.
TrajInitArgs ==
    {[NoArgs EXCEPT !.t_0 = Some(t), !.u_0 = Some(u), !.t_E = Some(te)] :
        t \in Vals, u \in Vals, te \in Vals}
    \cup {[NoArgs EXCEPT !.t_0 = Some(t), !.u_0 = Some(u), !.t_E = Some(te),
                         !.s = Some(1), !.q = [kind |-> "scalar", v |-> <<1>>],
                         !.alpha = Some(al)] :
             t \in Vals, u \in Vals, te \in Vals, al \in Vals}

\* Calls with the times given (no time, one or two), and calls that leave
\* the times to set_times.
PlotTrajectoryArgs ==
    [times : {Some(<<>>)} \cup {Some(s) : s \in SeqsUpTo(Epochs, 2)},
     t_range : {None}, t_start : {None}, t_stop : {None}, dt : {None},
     n_epochs : {None}, arrow : BOOLEAN, caustics : BOOLEAN]
    \cup [times : {None}, t_range : {None}, t_start : {None}, t_stop : {None},
          dt : {None, Some(1)}, n_epochs : {None, Some(2)},
          arrow : BOOLEAN, caustics : BOOLEAN]

InitTraj ==
    /\ \E a \in TrajInitArgs :
          /\ Constructor(a).exc = ""
          /\ ModelIs(NewModel(Constructor(a), a), TRUE)
    /\ result = NoResult
    /\ computed = NoCount
    /\ cpws = NoCpws
    /\ lens = NoLens
    /\ model_2 = NoModel2

\* A plot is followed from the states the other calls leave.
NextTraj ==
    \/ \E b \in BOOLEAN : Model_parallax(Some(b), Some(b), Some(b))
    \/ \E b \in BOOLEAN : Model_parallax(None, Some(b), None)
    \/ /\ result.op # "plot_trajectory"
       /\ \E a \in PlotTrajectoryArgs : plot_trajectory(a)

SpecTraj == InitTraj /\ [][NextTraj]_vars

\* A trajectory was computed for given times with every parallax flag off.
PlottedWithoutParallax ==
    /\ result.op = "plot_trajectory"
    /\ ~IsNone(result.trajectory)
    /\ ~IsNone(result.args.times)
    /\ ~ParallaxOffset(parallax)

\* a / b = v for the fraction [num |-> a, den |-> b] and a whole v.
Is(f, v) == f.num = v * f.den

ValidBeforeParallax(a) ==
    /\ a.parameters.kind # "other"
    /\ a.q.kind = "list" => Len(a.q.v) = 1
    /\ ~SomeButNotAll(a)

\* C17: a constructor call that is given exactly one of pi_E_N and pi_E_E
\* yields no Model and leaves the parallax vector of the parameters as it
\* was, raising AttributeError when the tests before it pass; a call that is
\* given both and raises nothing before sets both components, and the frame
\* to pi_E_ref when that is given.
C17_ParallaxBothOrNeither ==
    ConstructorCalled =>
        LET a == result.args
            before == ParametersBefore(a)
        IN  /\ (IsNone(a.pi_E_N) # IsNone(a.pi_E_E) =>
                   /\ result.exc # "" /\ ~exists
                   /\ parameters.pi_E_N = before.pi_E_N
                   /\ parameters.pi_E_E = before.pi_E_E
                   /\ parameters.pi_E_ref = before.pi_E_ref
                   /\ (ValidBeforeParallax(a) => result.exc = "AttributeError"))
            /\ (~IsNone(a.pi_E_N) /\ ~IsNone(a.pi_E_E) /\ ValidBeforeParallax(a) =>
                   /\ parameters.pi_E_N = a.pi_E_N
                   /\ parameters.pi_E_E = a.pi_E_E
                   /\ (~IsNone(a.pi_E_ref) => parameters.pi_E_ref = a.pi_E_ref))

\* Only pi_E_E is given, to a call that is valid otherwise.
C17_Witness ==
    /\ ConstructorCalled
    /\ IsNone(result.args.pi_E_N) /\ result.args.pi_E_E = Some(2)
    /\ ValidBeforeParallax(result.args)
    /\ ~IsNone(result.args.ra) /\ ~IsNone(result.args.dec)
    /\ result.exc = "AttributeError"
    /\ ~exists

\* C18: after set_parameters the parameters of the model are those passed
\* in the call, and every parameter that was not passed is None, whatever
\* the model held before.
C18_SetParametersForgets ==
    result.op = "set_parameters" /\ result.exc = "" =>
        \A f \in DOMAIN result.kw :
            IF IsNone(result.kw[f]) THEN IsNone(parameters[f])
            ELSE parameters[f] = result.kw[f]

\* --------------------------------------------------- parallax specification
FlagArgs == {None, Some(TRUE), Some(FALSE)}

InitPar == InitMag

NextPar == \E e \in FlagArgs, s \in FlagArgs, t \in FlagArgs : Model_parallax(e, s, t)

SpecPar == InitPar /\ [][NextPar]_vars

FlagNames == {"earth_orbital", "satellite", "topocentric"}

ValidBeforeCoords(a) ==
    /\ ValidBeforeParallax(a)
    /\ IsNone(a.pi_E_N) <=> IsNone(a.pi_E_E)

\* C21: a constructor call that is given exactly one of ra and dec, either
\* one, and that no earlier test rejects, raises AttributeError, yields no
\* Model and stores no coordinates.
C21_RaDecBothOrNeither ==
    ConstructorCalled /\ ValidBeforeCoords(result.args)
                      /\ IsNone(result.args.ra) # IsNone(result.args.dec) =>
        /\ result.exc = "AttributeError"
        /\ ~exists
        /\ IsNone(coords)

\* ------------------------------------------------- order of the caustics
\* The opposite of a point: -z in the lens plane, -w in the source plane.
Negated(p) ==
    IF p.plane = "lens" THEN [p EXCEPT !.sign = -@]
    ELSE [p EXCEPT !.z = -@, !.conj = -@, !.inv = -@]

SetSingleMass(l, new_mass) ==
    [l EXCEPT !.total_mass = Some(new_mass),
              !.epsilon = Some([num |-> <<1>>, den |-> 1])]

\* Lens.__init__, lines 5-40, for the arguments (mass_1) and (mass_1, mass_2).
NewLensMasses(mass_1, mass_2) ==
    LET l0 == [s |-> None, epsilon |-> None, total_mass |-> None, caustic |-> None]
    IN  IF ~IsNone(mass_2)
        THEN [l0 EXCEPT !.total_mass = Some(mass_1 + Val(mass_2)),
                        !.epsilon = Some([num |-> <<mass_1, Val(mass_2)>>,
                                          den |-> mass_1 + Val(mass_2)])]
        ELSE SetSingleMass(l0, mass_1)

\* The size of the array _epsilon.
EpsilonSize(l) == Len(Val(l.epsilon).num)

\* LensGetQ without the division by epsilon[0].
LensGetQ_Fractions(l) ==
    IF EpsilonSize(l) > 1
    THEN [exc |-> "",
          value |-> [i \in 1..(EpsilonSize(l) - 1) |->
                        [num |-> Val(l.epsilon).num[i + 1], den |-> Val(l.epsilon).den]]]
    ELSE [exc |-> "AttributeError", value |-> <<>>]

\* Lens.q, lines 165-174: epsilon[1:] / epsilon[0], an array of fractions;
\* num[i]/den divided by num[1]/den is (num[i] * den) / (den * num[1]).
LensGetQ(l) ==
    IF EpsilonSize(l) > 1
    THEN [exc |-> "",
          value |-> [i \in 1..(EpsilonSize(l) - 1) |->
                        [num |-> Val(l.epsilon).num[i + 1] * Val(l.epsilon).den,
                         den |-> Val(l.epsilon).den * Val(l.epsilon).num[1]]]]
    ELSE [exc |-> "AttributeError", value |-> <<>>]

\* Lens.mass_1, lines 90-96, and Lens.mass_2, lines 105-111: fractions.
LensMass(l, index) ==
    [num |-> Val(l.total_mass) * Val(l.epsilon).num[index + 1],
     den |-> Val(l.epsilon).den]
LensMass1(l) == LensMass(l, 0)
LensMass2(l) == LensMass(l, 1)

\* _change_mass(new_mass, index), lines 221-229: its first statement calls
\* self._total_mass, a number, which raises TypeError before anything is
\* assigned.
ChangeMass(l, new_mass, index) == [exc |-> "TypeError", l |-> l]

\* np.insert(seq, index, value).
Insert(seq, index, value) ==
    SubSeq(seq, 1, index) \o <<value>> \o SubSeq(seq, index + 1, Len(seq))

\* _add_mass(new_mass, index), lines 239-250.  The fractions
\* total * num[i] / (den * new_total) and new_mass / new_total are brought
\* to the denominator den * new_total.
AddMass(l, new_mass, index) ==
    LET total == Val(l.total_mass)
        e == Val(l.epsilon)
        new_total == total + new_mass
        scaled == [i \in 1..Len(e.num) |-> total * e.num[i]]
    IN  [exc |-> "",
         l |-> [l EXCEPT
                  !.epsilon = Some([num |-> Insert(scaled, index, new_mass * e.den),
                                    den |-> e.den * new_total]),
                  !.total_mass = Some(new_total)]]

\* Lens.mass_2 = new_mass, lines 113-123.
LensSetMass2(l, new_mass) ==
    IF EpsilonSize(l) > 1 THEN ChangeMass(l, new_mass, 1)
    ELSE AddMass(l, new_mass, 1)

\* lens.q
Lens_q ==
    /\ result.op # "Lens.q"
    /\ result' = [op |-> "Lens.q", exc |-> LensGetQ(lens).exc,
                  value |-> LensGetQ(lens).value]
    /\ UNCHANGED <<modelVars, computed, cpws, lens, model_2>>

\* lens.mass_2 = new_mass
Lens_mass_2_setter(new_mass) ==
    /\ Val(lens.total_mass) + new_mass <= MaxMass
    /\ lens' = LensSetMass2(lens, new_mass).l
    /\ result' = [op |-> "Lens.mass_2.setter", exc |-> LensSetMass2(lens, new_mass).exc,
                  value |-> new_mass, before |-> lens]
    /\ UNCHANGED <<modelVars, computed, cpws, model_2>>

\* ------------------------------------------------------ mass specification
\* Lenses as the constructor leaves them: Lens(mass_1=m), a point lens;
\* Lens(mass_1=m, mass_2=n) and Lens(q=q, s=s, mass_1=m), fully defined.
Masses == 1..(MaxVal + 1)

InitMass ==
    /\ Unconstructed
    /\ result = NoResult
    /\ computed = NoCount
    /\ cpws = NoCpws
    /\ model_2 = NoModel2
    /\ \/ \E m \in Masses, n \in {None} \cup {Some(v) : v \in Masses} :
             lens = NewLensMasses(m, n)
       \/ \E q \in Vals, m \in Masses : lens = NewLens(q, 1, Some(m))

NextMass ==
    \/ \E v \in Vals : Lens_q_setter(v)
    \/ Lens_q
    \/ \E m \in Masses : Lens_mass_2_setter(m)

SpecMass == InitMass /\ [][NextMass]_vars

\* The fraction v / 1.
Whole1(v) == [num |-> v, den |-> 1]

\* C23: after Lens.q = q the mass fractions are 1/(1+q) and q/(1+q), which
\* sum to 1, and Lens.q reads as the one value q; reading Lens.q of a lens of
\* one body raises AttributeError.
C23_EpsilonFollowsQ ==
    /\ result.op = "Lens.q.setter" =>
          LET q == result.value
              e == Val(lens.epsilon)
              read == LensGetQ(lens)
          IN  /\ Len(e.num) = 2
              /\ Equal([num |-> e.num[1], den |-> e.den], [num |-> 1, den |-> 1 + q])
              /\ Equal([num |-> e.num[2], den |-> e.den], [num |-> q, den |-> 1 + q])
              /\ Sum(e.num) = e.den
              /\ read.exc = ""
              /\ Len(read.value) = 1
              /\ Equal(read.value[1], Whole1(q))
    /\ result.op = "Lens.q" =>
          /\ EpsilonSize(lens) = 1 => result.exc = "AttributeError"
          /\ EpsilonSize(lens) > 1 => result.exc = ""

\* q is set to 2 on a point lens of mass 1.
C23_Witness ==
    /\ result.op = "Lens.q.setter" /\ result.value = 2
    /\ EpsilonSize(result.before) = 1
    /\ lens.epsilon = Some([num |-> <<1, 2>>, den |-> 3])
    /\ LensGetQ(lens).value = <<[num |-> 6, den |-> 3]>>

\* Lens.q is read on a point lens.
C23_WitnessOneBody ==
    /\ result.op = "Lens.q" /\ result.exc = "AttributeError" /\ EpsilonSize(lens) = 1

\* C24: Lens.q = q on a lens that is fully defined (two mass fractions and a
\* total mass) leaves total_mass as it was, however often q is set; on a lens
\* of which only the primary is defined (one mass fraction and a total mass)
\* it multiplies total_mass by 1 + q.
C24_TotalMassKept ==
    result.op = "Lens.q.setter" /\ ~IsNone(result.before.total_mass) =>
        LET old == Val(result.before.total_mass)
        IN  /\ EpsilonSize(result.before) > 1 => Val(lens.total_mass) = old
            /\ EpsilonSize(result.before) = 1 =>
                  Val(lens.total_mass) = old * (1 + result.value)

\* C25: after Lens.mass_2 = m, on a point lens as on a lens that has a
\* secondary, the assignment raises nothing, mass_2 reads m, mass_1 reads
\* what it read before, total_mass is mass_1 + m and the mass fractions
\* sum to 1.
C25_Mass2ReadsBack ==
    result.op = "Lens.mass_2.setter" =>
        LET m == result.value
            e == Val(lens.epsilon)
        IN  /\ result.exc = ""
            /\ Equal(LensMass2(lens), Whole1(m))
            /\ Equal(LensMass1(lens), LensMass1(result.before))
            /\ Equal(Whole1(Val(lens.total_mass)),
                     [num |-> LensMass1(lens).num + m * LensMass1(lens).den,
                      den |-> LensMass1(lens).den])
            /\ Sum(e.num) = e.den

\* ------------------------------------------------------- limb darkening
\* LimbDarkeningCoeffs (MulensModel.limbdarkeningcoeffs): the coefficient
\* stored for a bandpass replaces the one stored before; it is held as given,
\* with its convention.
SetLimbCoef(coeffs, bandpass, convention, coef) ==
    [b \in DOMAIN coeffs \cup {bandpass} |->
        IF b = bandpass THEN [convention |-> convention, coef |-> coef] ELSE coeffs[b]]

\* limb_coef_gamma(bandpass): the gamma stored, or the one that follows from
\* the u stored.
LimbCoefGamma(coeffs, bandpass) ==
    IF coeffs[bandpass].convention = "gamma" THEN coeffs[bandpass].coef
    ELSE [gamma_of_u |-> coeffs[bandpass].coef]

\* The elements of a list.
Elements(list) == {list[i] : i \in 1..Len(list)}

\* AppendBandpass without the membership test.
AppendBandpass_Always(list, bandpass) == Append(list, bandpass)

\* Lines 1118-1119 and 1133-1134: the bandpass is appended unless it is in
\* the list.
AppendBandpass(list, bandpass) ==
    IF bandpass \notin Elements(list) THEN Append(list, bandpass) ELSE list

\* The fields no limb darkening call changes.
BandFrame == <<exists, parameters, t_0_par, coords, ephemerides_file, parallax,
               default_method, methods, caustics, computed, cpws, lens, model_2>>

\* model.set_limb_coef_gamma(bandpass, coef), lines 1107-1120.
set_limb_coef_gamma(bandpass, coef) ==
    /\ exists
    /\ bandpasses' = AppendBandpass(bandpasses, bandpass)
    /\ limb_darkening_coeffs' = SetLimbCoef(limb_darkening_coeffs, bandpass, "gamma", coef)
    /\ result' = [op |-> "set_limb_coef_gamma", exc |-> "", bandpass |-> bandpass]
    /\ UNCHANGED BandFrame

\* model.set_limb_coef_u(bandpass, coef), lines 1122-1135.
set_limb_coef_u(bandpass, coef) ==
    /\ exists
    /\ bandpasses' = AppendBandpass(bandpasses, bandpass)
    /\ limb_darkening_coeffs' = SetLimbCoef(limb_darkening_coeffs, bandpass, "u", coef)
    /\ result' = [op |-> "set_limb_coef_u", exc |-> "", bandpass |-> bandpass]
    /\ UNCHANGED BandFrame

\* Lines 401-404: the positions of the dataset, when it has an ephemerides file.
DatasetSkycoord(dataset) ==
    IF ~IsNone(dataset.ephemerides_file) THEN dataset.satellite_skycoord ELSE None

\* Lines 406-415: the gamma of the dataset, when it is not the ValueError of
\* a bandpass that has no coefficient: 0 without a bandpass.
DatasetGamma(dataset, m) ==
    IF IsNone(dataset.bandpass) THEN [exc |-> "", gamma |-> Some(0)]
    ELSE IF Val(dataset.bandpass) \notin Elements(m.bandpasses)
         THEN [exc |-> "ValueError", gamma |-> None]
         ELSE [exc |-> "",
               gamma |-> Some(LimbCoefGamma(m.limb_darkening_coeffs, Val(dataset.bandpass)))]

\* Model.get_data_magnification(dataset), lines 386-420, on the Model with
\* the fields m; evaluated tells that self.magnification was called.
DataMagnification(dataset, m) ==
    LET g == DatasetGamma(dataset, m)
    IN  IF g.exc # ""
        THEN [exc |-> g.exc, magnification |-> None, gamma |-> None, evaluated |-> FALSE]
        ELSE LET r == MagnificationResult(dataset.time, DatasetSkycoord(dataset),
                                          Val(g.gamma), m)
             IN  [exc |-> r.exc, magnification |-> r.magnification,
                  gamma |-> g.gamma, evaluated |-> TRUE]

\* model.get_data_magnification(dataset)
get_data_magnification(dataset) ==
    /\ exists
    /\ LET r == DataMagnification(dataset, Self)
       IN  result' = [op |-> "get_data_magnification", exc |-> r.exc,
                      magnification |-> r.magnification, gamma |-> r.gamma,
                      evaluated |-> r.evaluated, dataset |-> dataset]
    /\ UNCHANGED <<modelVars, computed, cpws, lens, model_2>>

\* ------------------------------------------------- bandpass specification
Bandpasses == {"I", "V", "R"}

\* Datasets: the epochs, the ephemerides file with the positions it gives for
\* the epochs, and the bandpass.
DatasetArgs ==
    {[time |-> [kind |-> "ndarray", v |-> t],
      ephemerides_file |-> f,
      satellite_skycoord |-> IF IsNone(f) THEN None
                             ELSE Some([i \in 1..Len(t) |-> <<"dataset", t[i]>>]),
      bandpass |-> b] :
        t \in SeqsUpTo(Epochs, 2), f \in {None, Some("file")},
        b \in {None} \cup {Some(x) : x \in Bandpasses}}

InitBand == InitMag

NextBand ==
    \/ \E b \in Bandpasses : set_limb_coef_gamma(b, 1)
    \/ \E b \in Bandpasses : set_limb_coef_u(b, 1)
    \/ /\ result.op # "get_data_magnification"
       /\ \E d \in DatasetArgs : get_data_magnification(d)

SpecBand == InitBand /\ [][NextBand]_vars

\* C26: the list of bandpasses holds every bandpass a coefficient was set
\* for, each once, whatever calls of set_limb_coef_gamma and set_limb_coef_u
\* were made; get_data_magnification of a dataset without a bandpass is
\* evaluated with gamma = 0, and of a dataset whose bandpass has no
\* coefficient raises ValueError without evaluating a magnification.
C26_Bandpasses ==
    /\ Cardinality(Elements(bandpasses)) = Len(bandpasses)
    /\ Elements(bandpasses) = DOMAIN limb_darkening_coeffs
    /\ result.op \in {"set_limb_coef_gamma", "set_limb_coef_u"} =>
          result.bandpass \in Elements(bandpasses)
    /\ result.op = "get_data_magnification" =>
          /\ IsNone(result.dataset.bandpass) =>
                /\ result.evaluated
                /\ result.gamma = Some(0)
                /\ result.exc = "" =>
                      \A i \in 1..Len(Val(result.magnification)) :
                          Val(result.magnification)[i].gamma = 0
          /\ /\ ~IsNone(result.dataset.bandpass)
             /\ Val(result.dataset.bandpass) \notin DOMAIN limb_darkening_coeffs
             => /\ result.exc = "ValueError"
                /\ ~result.evaluated
                /\ IsNone(result.magnification)

\* The coefficient of I was set twice, as gamma and as u, and that of V once;
\* a dataset of bandpass R is then asked for.
C26_Witness ==
    /\ bandpasses = <<"I", "V">>
    /\ limb_darkening_coeffs["I"].convention = "u"
    /\ result.op = "get_data_magnification"
    /\ result.dataset.bandpass = Some("R")
    /\ result.exc = "ValueError"

====
